---------------------------- MODULE Spec2Model ----------------------------
(***************************************************************************)
(* Model of EmployeeRosterCSVLoader (constants.py): the dispatch on the    *)
(* file's base name, the encoding-tolerant reader, the column resolver,    *)
(* the record formatter and the group-and-order merger.                    *)
(*                                                                         *)
(* A Python str is modelled as the tuple of its Unicode code points, so    *)
(* that lower(), strip(), the regular expression of _normalize_key, the    *)
(* "in" operator and the ordering used by sorted() are computed as Python  *)
(* computes them.  The text of every literal is given in a comment.        *)
(***************************************************************************)
EXTENDS Integers, Sequences, FiniteSets

(***************************************************************************)
(* Python values                                                           *)
(***************************************************************************)

\* Python's None: a tuple that is the code points of no string.
None == <<-1>>

\* the truth value of an Optional[str]: None and "" are false
Truthy(s) == s # None /\ s # <<>>

\* str.isspace() of one character, as used by str.strip() and by \s
IsSpace(c) ==
    \/ c \in 9..13
    \/ c \in 28..32
    \/ c \in {133, 160, 5760, 8232, 8233, 8239, 8287, 12288}
    \/ c \in 8192..8202

\* str.lower() of one character: ASCII and full-width Latin capitals
LowerChar(c) ==
    IF c \in 65..90 \/ c \in 65313..65338 THEN c + 32 ELSE c

\* str.lower()
Lower(s) == [i \in 1..Len(s) |-> LowerChar(s[i])]

\* str.strip()
Strip(s) ==
    LET keep == {i \in 1..Len(s) : ~IsSpace(s[i])}
    IN  IF keep = {} THEN <<>>
        ELSE LET lo == CHOOSE i \in keep : \A j \in keep : i <= j
                 hi == CHOOSE i \in keep : \A j \in keep : j <= i
             IN  SubSeq(s, lo, hi)

\* needle in hay
Contains(hay, needle) ==
    \E i \in 0..(Len(hay) - Len(needle)) :
        SubSeq(hay, i + 1, i + Len(needle)) = needle

\* a < b for two str: by code point, a proper prefix first
StrLess(a, b) ==
    \E i \in 1..(Len(b)) :
        /\ i <= Len(a) + 1
        /\ \A j \in 1..(i - 1) : a[j] = b[j]
        /\ (i = Len(a) + 1 \/ a[i] < b[i])

RECURSIVE Join(_, _)
\* sep.join(parts)
Join(sep, parts) ==
    IF parts = <<>> THEN <<>>
    ELSE IF Len(parts) = 1 THEN parts[1]
    ELSE parts[1] \o sep \o Join(sep, Tail(parts))

RECURSIVE SelectSeq2(_, _)
\* [x for x in s if x is kept]: the elements of s at the positions of keep, in order
SelectSeq2(s, keep) ==
    IF s = <<>> THEN <<>>
    ELSE LET rest == SelectSeq2(SubSeq(s, 1, Len(s) - 1), keep)
         IN  IF Len(s) \in keep THEN Append(rest, s[Len(s)]) ELSE rest

(***************************************************************************)
(* String literals of the source                                           *)
(***************************************************************************)

\* "社員名簿.csv"
SentinelName == <<31038, 21729, 21517, 31807, 46, 99, 115, 118>>

\* "未設定"
Unassigned == <<26410, 35373, 23450>>

\* "全社員"
AllEmployees == <<20840, 31038, 21729>>

\* "人事"
HRMarker == <<20154, 20107>>

\* "部署:"
DeptToken == <<37096, 32626, 58>>

\* "\n"
NL == <<10>>

\* " / "
SegSep == <<32, 47, 32>>

\* ": "
Colon == <<58, 32>>

\* the candidate names of the department column
DeptCandidates ==
    << <<25152, 23646, 37096, 32626>>, <<37096, 32626>>, <<37096, 38272>>, <<25152, 23646>>,
       <<100, 101, 112, 97, 114, 116, 109, 101, 110, 116>>, <<100, 101, 112, 116>>, <<115, 101, 99, 116, 105, 111, 110>>, <<116, 101, 97, 109>> >>

\* the candidate names of the name column
NameCandidates ==
    << <<27663, 21517>>, <<21517, 21069>>, <<31038, 21729, 21517>>, <<110, 97, 109, 101>>, <<102, 117, 108, 108, 110, 97, 109, 101>> >>

\* the candidate names of the identifier column
IdCandidates ==
    << <<31038, 21729, 73, 68>>, <<31038, 21729, 30058, 21495>>, <<31038, 21729, 78, 111>>, <<105, 100>>, <<101, 109, 112, 108, 111, 121, 101, 101, 105, 100>>, <<101, 109, 112, 105, 100>> >>

\* the candidate names of the title column
TitleCandidates ==
    << <<24441, 32887>>, <<32887, 31278>>, <<32887, 20301>>, <<116, 105, 116, 108, 101>>, <<106, 111, 98>>, <<112, 111, 115, 105, 116, 105, 111, 110>> >>

(***************************************************************************)
(* _normalize_key and _pick_column                                         *)
(***************************************************************************)

\* re.sub(r"[\s_\-　]+", "", str(s)).lower()
_normalize_key(s) ==
    LET keep == {i \in 1..Len(s) : ~(IsSpace(s[i]) \/ s[i] \in {95, 45, 12288})}
    IN  Lower(SelectSeq2(s, keep))

\* the keys of {fn: ... for fn in fieldnames}, in insertion order
DictKeys(fieldnames) ==
    SelectSeq2(fieldnames,
               {i \in 1..Len(fieldnames) :
                   \A j \in 1..(i - 1) : fieldnames[j] # fieldnames[i]})

\* the first of the keys at the positions hit, where the loop over
\* norm_map.items() returns; None when it returns nowhere
FirstMatch(keys, hit) ==
    IF hit = {} THEN None
    ELSE keys[CHOOSE i \in hit : \A j \in hit : i <= j]

RECURSIVE PickFrom(_, _, _)
\* the loop "for c in cand_norm" of _pick_column, from candidate number ci on
PickFrom(keys, candidates, ci) ==
    IF ci > Len(candidates) THEN None
    ELSE LET c == _normalize_key(candidates[ci])
             Exact(fn) == _normalize_key(fn) = c
             Sub(fn) == Contains(_normalize_key(fn), c) \/ Contains(c, _normalize_key(fn))
             e == FirstMatch(keys, {i \in 1..Len(keys) : Exact(keys[i])})
             s == FirstMatch(keys, {i \in 1..Len(keys) : Sub(keys[i])})
         IN  IF e # None THEN e
             ELSE IF s # None THEN s
             ELSE PickFrom(keys, candidates, ci + 1)

RECURSIVE PickExactFrom(_, _, _)
\* an exact match of any candidate, from candidate number ci on
PickExactFrom(keys, candidates, ci) ==
    IF ci > Len(candidates) THEN None
    ELSE LET c == _normalize_key(candidates[ci])
             Exact(fn) == _normalize_key(fn) = c
             e == FirstMatch(keys, {i \in 1..Len(keys) : Exact(keys[i])})
         IN  IF e # None THEN e ELSE PickExactFrom(keys, candidates, ci + 1)

RECURSIVE PickSubFrom(_, _, _)
\* a containment match of any candidate, from candidate number ci on
PickSubFrom(keys, candidates, ci) ==
    IF ci > Len(candidates) THEN None
    ELSE LET c == _normalize_key(candidates[ci])
             Sub(fn) == Contains(_normalize_key(fn), c) \/ Contains(c, _normalize_key(fn))
             s == FirstMatch(keys, {i \in 1..Len(keys) : Sub(keys[i])})
         IN  IF s # None THEN s ELSE PickSubFrom(keys, candidates, ci + 1)

\* _pick_column in two passes: the exact matches of every candidate before
\* any containment match
_pick_column_two_passes(fieldnames, candidates) ==
    IF fieldnames = <<>> THEN None
    ELSE LET e == PickExactFrom(DictKeys(fieldnames), candidates, 1)
         IN  IF e # None THEN e
             ELSE PickSubFrom(DictKeys(fieldnames), candidates, 1)

_pick_column(fieldnames, candidates) ==
    IF fieldnames = <<>> THEN None
    ELSE PickFrom(DictKeys(fieldnames), candidates, 1)

(***************************************************************************)
(* The file: what csv.reader yields for it, and under which encodings      *)
(***************************************************************************)

VARIABLES
    file_path,          \* self.file_path
    encoding,           \* self.encoding
    fileHeader,         \* the first row csv.reader yields: the raw header cells
    fileRows,           \* the other rows csv.reader yields, each a tuple of raw cells
    decodable,          \* the encodings under which the file reads without a decoding error
    fileMissing,        \* open() raises an OSError (file not found, permission denied)
    documentAvailable,  \* the import of Document succeeded (Document is not None)
    pc,                 \* the position in load()
    encodings,          \* the candidate list of load()
    enc_i,              \* the position of "for enc in encodings"
    attempted,          \* the encodings open() was called with, in order
    last_err,           \* _read_csv_rows' last_err
    fieldnames,         \* the reader's result
    rows,
    used_enc,
    dept_key,           \* the column resolution
    name_key,
    id_key,
    title_key,
    groups,             \* label -> rows
    ordered_depts,
    sections,           \* per group of the loop of lines 157-167: its label and its bullet lines
    result,             \* what load() returns or raises
    loaderCalls,        \* the (file_path, encoding) CSVLoader was constructed and loaded with
    ran                 \* which of the reader, resolver, formatter and merger have run

vars ==
    << file_path, encoding, fileHeader, fileRows, decodable, fileMissing,
       documentAvailable, pc, encodings, enc_i, attempted, last_err, fieldnames,
       rows, used_enc, dept_key, name_key, id_key, title_key, groups,
       ordered_depts, sections, result, loaderCalls, ran >>

\* os.path.basename: what follows the last "/"
Basename(p) ==
    LET slash == {i \in 1..Len(p) : p[i] = 47}
    IN  IF slash = {} THEN p
        ELSE SubSeq(p, (CHOOSE i \in slash : \A j \in slash : j <= i) + 1, Len(p))

\* r.get(k)
Get(r, k) == IF k \in DOMAIN r THEN r[k] ELSE None

\* r.get(k, "")
GetOrEmpty(r, k) == IF k \in DOMAIN r THEN r[k] ELSE <<>>

\* csv.DictReader's row for the cells of one line: dict(zip(fieldnames, row)),
\* the missing cells None, the cells beyond the header under the key None
DictReaderRow(header, cells) ==
    [k \in {header[i] : i \in 1..Len(header)} |->
        LET j == CHOOSE i \in 1..Len(header) :
                    header[i] = k /\ \A m \in 1..Len(header) : header[m] = k => m <= i
        IN  IF j <= Len(cells) THEN cells[j] ELSE None]

\* lines 57-63: the row with its keys and values stripped; of two keys that
\* strip to the same text the later one of the dict wins
StripRow(header, d) ==
    LET keys == DictKeys(header)
    IN  [kk \in {Strip(keys[i]) : i \in 1..Len(keys)} |->
            LET j == CHOOSE i \in 1..Len(keys) :
                        /\ Strip(keys[i]) = kk
                        /\ \A m \in 1..Len(keys) : Strip(keys[m]) = kk => m <= i
                v == d[keys[j]]
            IN  IF v = None THEN <<>> ELSE Strip(v)]

\* line 54
ReadFieldnames(header) == [i \in 1..Len(header) |-> Strip(header[i])]

\* lines 55-64; csv.DictReader skips the rows that are []
ReadRows(header, lines) ==
    LET data == SelectSeq2(lines, {i \in 1..Len(lines) : lines[i] # <<>>})
    IN  [i \in 1..Len(data) |-> StripRow(header, DictReaderRow(header, data[i]))]

\* what open(file_path, encoding=enc) and the parse raise, or "none"
ReadError(enc) ==
    IF fileMissing THEN [type |-> "OSError", encoding |-> "none"]
    ELSE IF enc \notin decodable THEN [type |-> "UnicodeDecodeError", encoding |-> enc]
    ELSE [type |-> "none", encoding |-> "none"]

\* CSVLoader(path, encoding=enc).load(): one document per data row, or a
\* RuntimeError raised from the error of reading the file
CSVLoaderLoad(path, enc) ==
    IF ReadError(enc).type # "none"
    THEN [kind |-> "raise", type |-> "RuntimeError", cause |-> ReadError(enc)]
    ELSE [kind |-> "documents",
          docs |-> [i \in 1..Len(ReadRows(fileHeader, fileRows)) |->
                       [source |-> path, row |-> i - 1,
                        cells |-> ReadRows(fileHeader, fileRows)[i]]]]

(***************************************************************************)
(* fmt_row, the grouping and the rendering                                 *)
(***************************************************************************)

\* extras[:3]
MaxExtras == 3

\* fieldnames[:5]
CompactCols == 5

\* s[:n]
Prefix(s, n) == SubSeq(s, 1, IF Len(s) < n THEN Len(s) ELSE n)

\* line 106: [k for k in [name_key, dept_key, title_key, id_key] if k]
used_keys ==
    LET all == <<name_key, dept_key, title_key, id_key>>
    IN  SelectSeq2(all, {i \in 1..4 : Truthy(all[i])})

\* lines 110-117: the segments of the resolved fields that have a value,
\* each with the column it is rendered from
SemanticParts(r) ==
    LET all == << [key |-> name_key, label |-> <<27663, 21517>>],
                  [key |-> dept_key, label |-> <<37096, 32626>>],
                  [key |-> title_key, label |-> <<24441, 32887>>],
                  [key |-> id_key, label |-> <<31038, 21729, 73, 68>>] >>
        kept == SelectSeq2(all, {i \in 1..4 :
                    Truthy(all[i].key) /\ Truthy(Get(r, all[i].key))})
    IN  [i \in 1..Len(kept) |->
            [column |-> kept[i].key,
             text |-> kept[i].label \o Colon \o Get(r, kept[i].key)]]

\* line 120 without "k not in used_keys"
ExtrasOfAllColumns(r) ==
    SelectSeq2(fieldnames,
               {i \in 1..Len(fieldnames) : Truthy(Get(r, fieldnames[i]))})

\* line 120: extras = [k for k in fieldnames if k not in used_keys and r.get(k)]
Extras(r) ==
    SelectSeq2(fieldnames,
               {i \in 1..Len(fieldnames) :
                   /\ \A j \in 1..Len(used_keys) : used_keys[j] # fieldnames[i]
                   /\ Truthy(Get(r, fieldnames[i]))})

\* lines 121-122: the segments of extras[:3]
ExtraParts(r) ==
    LET ex == Prefix(Extras(r), MaxExtras)
    IN  [i \in 1..Len(ex) |->
            [column |-> ex[i], text |-> ex[i] \o Colon \o Get(r, ex[i])]]

\* line 126: the compact form of a row no segment was made for
Compact(r) ==
    LET first == Prefix(fieldnames, CompactCols)
        named == SelectSeq2(first, {i \in 1..Len(first) : first[i] # <<>>})
    IN  Join(SegSep, [i \in 1..Len(named) |->
                         named[i] \o Colon \o GetOrEmpty(r, named[i])])

\* lines 108-128
fmt_row(r) ==
    LET parts == SemanticParts(r) \o ExtraParts(r)
    IN  IF parts = <<>> THEN Compact(r)
        ELSE Join(SegSep, [i \in 1..Len(parts) |-> parts[i].text])

\* line 134: the label of the group of row r, the department column resolved
DeptOf(r) ==
    LET dept == Strip(GetOrEmpty(r, dept_key))
    IN  IF dept = <<>> THEN Unassigned ELSE dept

\* lines 131-137 with groups[dept] = [r] in place of setdefault and append:
\* a group keeps its last row only
BuildGroupsOverwriting ==
    IF Truthy(dept_key)
    THEN [d \in {DeptOf(rows[i]) : i \in 1..Len(rows)} |->
             LET mine == SelectSeq2(rows, {i \in 1..Len(rows) : DeptOf(rows[i]) = d})
             IN  <<mine[Len(mine)]>>]
    ELSE [d \in {AllEmployees} |-> rows]

\* lines 131-137: groups, a dict from label to the list of its rows
BuildGroups ==
    IF Truthy(dept_key)
    THEN [d \in {DeptOf(rows[i]) : i \in 1..Len(rows)} |->
             SelectSeq2(rows, {i \in 1..Len(rows) : DeptOf(rows[i]) = d})]
    ELSE [d \in {AllEmployees} |-> rows]

\* lines 139-143 without the priority of the HR labels
dept_sort_key_plain(d) == <<1, d>>

\* lines 139-143
dept_sort_key(d) == <<IF Contains(d, HRMarker) THEN 0 ELSE 1, d>>

\* a < b for two keys of dept_sort_key, as Python compares tuples
KeyLess(a, b) == a[1] < b[1] \/ (a[1] = b[1] /\ StrLess(a[2], b[2]))

RECURSIVE SortedByKey(_)
\* line 145: sorted(labels, key=dept_sort_key), the labels being distinct
SortedByKey(labels) ==
    IF labels = {} THEN <<>>
    ELSE LET m == CHOOSE x \in labels :
                     \A y \in labels \ {x} : KeyLess(dept_sort_key(x), dept_sort_key(y))
         IN  <<m>> \o SortedByKey(labels \ {m})

\* lines 161-166: the bullet line of row r under the group dept, "" when
\* the row renders no line
BulletOf(dept, r) ==
    LET line == Strip(fmt_row(r))
    IN  IF line = <<>> THEN <<>>
        ELSE IF Truthy(dept_key) /\ ~Contains(line, DeptToken)
             THEN <<45, 32>> \o <<37096, 32626, 58, 32>> \o dept \o SegSep \o line
             ELSE <<45, 32>> \o line

\* lines 160-166: the bullet lines of a list of rows under the group dept
BulletLines(dept, rs) ==
    LET all == [i \in 1..Len(rs) |-> BulletOf(dept, rs[i])]
    IN  SelectSeq2(all, {i \in 1..Len(all) : all[i] # <<>>})

RECURSIVE Flatten(_)
\* the concatenation of a list of lists
Flatten(ss) == IF ss = <<>> THEN <<>> ELSE ss[1] \o Flatten(Tail(ss))

\* lines 148-167: content_lines
ContentLines(secs) ==
    << <<31038, 21729, 21517, 31807, 65288, 67, 83, 86, 65289>>,
       <<12501, 12449, 12452, 12523, 58, 32>> \o Basename(file_path),
       <<21015, 58, 32>> \o (IF fieldnames # <<>> THEN Join(<<12289>>, fieldnames) ELSE <<65288, 19981, 26126, 65289>>),
       <<>>,
       <<12304, 37096, 32626, 21029, 12398, 31038, 21729, 19968, 35239, 12305>>,
       <<>> >>
    \o Flatten([i \in 1..Len(secs) |->
                   <<<<35, 35, 35, 32, 37096, 32626, 58, 32>> \o secs[i].dept>> \o secs[i].bullets \o << <<>> >>])

\* lines 169-181: the Document
MergedDocument(secs) ==
    [kind |-> "merged",
     page_content |-> Strip(Join(NL, ContentLines(secs))),
     metadata |-> [source |-> file_path,
                   file_name |-> Basename(file_path),
                   file_type |-> "csv",
                   encoding |-> used_enc,
                   row_count |-> Len(rows)]]

(***************************************************************************)
(* The inputs                                                              *)
(***************************************************************************)

\* the number of data rows of a file is at most MaxRows
MaxRows == 2

\* the files' paths
FilePaths ==
    { <<100, 97, 116, 97, 47, 31038, 21729, 21517, 31807, 46, 99, 115, 118>>,     \* the roster
      <<100, 97, 116, 97, 47, 31038, 21729, 21517, 31807, 46, 67, 83, 86>>,     \* the roster's name in another letter case
      <<31038, 21729, 21517, 31807, 46, 99, 115, 118, 47, 22770, 19978, 46, 99, 115, 118>>, \* another file, in a directory named like the roster
      <<100, 97, 116, 97, 47, 22770, 19978, 46, 99, 115, 118>> }        \* another file

\* the encodings the caller passes
CallerEncodings == {"utf-8", "cp932"}

\* The sets of encodings one file can decode under: utf-8 and utf-8-sig
\* accept the same bytes, and what shift_jis accepts cp932 accepts.
DecodableSets ==
    {d \in SUBSET {"utf-8", "utf-8-sig", "cp932", "shift_jis", "utf-16"} :
        /\ ("utf-8" \in d) = ("utf-8-sig" \in d)
        /\ ("shift_jis" \in d) => ("cp932" \in d)}

\* the values of the cells
CellValues ==
    { <<>>,            \* an empty cell
      <<20154, 20107, 37096>>,
      <<32, 73, 84, 32>>,
      <<32207, 21209, 10, 20154, 20107>> }   \* a quoted cell with a line break

\* the header rows
HeaderRows ==
    { <<>>,                          \* a blank first line
      << <<27663, 21517>>, <<37096, 32626>> >>,
      << <<32, 27663, 21517, 32>>, <<68, 101, 112, 116>> >>,
      << <<37096, 32626>>, <<20860, 21209, 37096, 32626>> >>,
      << <<84, 101, 97, 109, 32, 78, 97, 109, 101>>, <<20633, 32771>> >>,
      << <<31038, 21729>>, <<31038, 21729, 30058, 21495>> >>,
      << <<20633, 32771>>, <<20633, 32771>> >>,
      << <<>>, <<24441, 32887>> >> }

\* the data rows of a file with the header row h: a cell per column
DataRows(h, n) ==
    LET width == IF Len(h) = 0 THEN 1 ELSE Len(h)
    IN  UNION {[1..k -> [1..width -> CellValues]] : k \in 0..n}

\* the files of the dispatch and of the reader: every path, encoding and outcome
\* of reading, one table
GateFiles ==
    [file_path : FilePaths, encoding : CallerEncodings,
     decodable : DecodableSets, fileMissing : BOOLEAN,
     documentAvailable : BOOLEAN,
     fileHeader : {<< <<27663, 21517>>, <<37096, 32626>> >>},
     fileRows : {<< <<<<65>>, <<20154, 20107, 37096>>>> >>}]

\* the files of the formatter and of the merger: every table, read under
\* the caller's encoding or a later one, or not at all
RosterFiles ==
    UNION {
      [file_path : {<<100, 97, 116, 97, 47, 31038, 21729, 21517, 31807, 46, 99, 115, 118>>}, encoding : {"utf-8"},
       decodable : {{"utf-8", "utf-8-sig"}},
       fileMissing : {FALSE}, documentAvailable : {TRUE},
       fileHeader : {h}, fileRows : DataRows(h, MaxRows)] : h \in HeaderRows }

(***************************************************************************)
(* load()                                                                  *)
(***************************************************************************)

NoError == [type |-> "none", encoding |-> "none"]

InitOf(files) ==
    \E f \in files :
        /\ file_path = f.file_path
        /\ encoding = f.encoding
        /\ fileHeader = f.fileHeader
        /\ fileRows = f.fileRows
        /\ decodable = f.decodable
        /\ fileMissing = f.fileMissing
        /\ documentAvailable = f.documentAvailable
        /\ pc = "load"
        /\ encodings = <<>>
        /\ enc_i = 1
        /\ attempted = <<>>
        /\ last_err = NoError
        /\ fieldnames = <<>>
        /\ rows = <<>>
        /\ used_enc = "none"
        /\ dept_key = None
        /\ name_key = None
        /\ id_key = None
        /\ title_key = None
        /\ groups = <<>>
        /\ ordered_depts = <<>>
        /\ sections = <<>>
        /\ result = [kind |-> "none"]
        /\ loaderCalls = <<>>
        /\ ran = {}

Init == InitOf(GateFiles)

InitRoster == InitOf(RosterFiles \cup GateFiles)

\* line 85 without lower(): the base name compared as it is
IsRosterCaseSensitive(path) == Basename(path) = SentinelName

\* line 85: the file is the roster
IsRoster(path) == Lower(Basename(path)) = SentinelName

\* lines 92-94 with the default encoding in place of self.encoding
FallbackUtf8 == "utf-8"

\* the encoding of the fallback of lines 92-94
FallbackEncoding == encoding

\* the encoding of the fallback of lines 96-98
NoDocumentEncoding == used_enc

\* lines 83-86: another file goes to CSVLoader
DispatchOther ==
    /\ pc = "load"
    /\ ~IsRoster(file_path)
    /\ loaderCalls' = Append(loaderCalls, [file_path |-> file_path, encoding |-> encoding])
    /\ result' = CSVLoaderLoad(file_path, encoding)
    /\ pc' = "done"
    /\ UNCHANGED << file_path, encoding, fileHeader, fileRows, decodable, fileMissing,
                    documentAvailable, encodings, enc_i, attempted, last_err,
                    fieldnames, rows, used_enc, dept_key, name_key, id_key,
                    title_key, groups, ordered_depts, sections, ran >>

\* lines 83-91: the roster goes to _read_csv_rows
DispatchRoster ==
    /\ pc = "load"
    /\ IsRoster(file_path)
    /\ encodings' = <<encoding, "utf-8-sig", "cp932", "shift_jis", "utf-16">>
    /\ enc_i' = 1
    /\ ran' = ran \cup {"reader"}
    /\ pc' = "read"
    /\ UNCHANGED << file_path, encoding, fileHeader, fileRows, decodable, fileMissing,
                    documentAvailable, attempted, last_err, fieldnames, rows,
                    used_enc, dept_key, name_key, id_key, title_key, groups,
                    ordered_depts, sections, result, loaderCalls >>

\* the next encoding of the loop of line 50
NextEncoding == encodings[enc_i]

\* lines 50-65 returning the caller's encoding in place of enc
ReadSucceedsReturnsCallerEncoding ==
    /\ pc = "read"
    /\ enc_i <= Len(encodings)
    /\ ReadError(NextEncoding).type = "none"
    /\ attempted' = Append(attempted, NextEncoding)
    /\ fieldnames' = ReadFieldnames(fileHeader)
    /\ rows' = ReadRows(fileHeader, fileRows)
    /\ used_enc' = encoding
    /\ pc' = "document"
    /\ UNCHANGED << file_path, encoding, fileHeader, fileRows, decodable, fileMissing,
                    documentAvailable, encodings, enc_i, last_err, dept_key,
                    name_key, id_key, title_key, groups, ordered_depts, sections,
                    result, loaderCalls, ran >>

\* lines 50-65: the next encoding reads the file
ReadSucceeds ==
    /\ pc = "read"
    /\ enc_i <= Len(encodings)
    /\ ReadError(NextEncoding).type = "none"
    /\ attempted' = Append(attempted, NextEncoding)
    /\ fieldnames' = ReadFieldnames(fileHeader)
    /\ rows' = ReadRows(fileHeader, fileRows)
    /\ used_enc' = NextEncoding
    /\ pc' = "document"
    /\ UNCHANGED << file_path, encoding, fileHeader, fileRows, decodable, fileMissing,
                    documentAvailable, encodings, enc_i, last_err, dept_key,
                    name_key, id_key, title_key, groups, ordered_depts, sections,
                    result, loaderCalls, ran >>

\* lines 66-68 with break in place of continue: the first error ends the loop
ReadFailsBreaks ==
    /\ pc = "read"
    /\ enc_i <= Len(encodings)
    /\ ReadError(NextEncoding).type # "none"
    /\ attempted' = Append(attempted, NextEncoding)
    /\ last_err' = ReadError(NextEncoding)
    /\ enc_i' = Len(encodings) + 1
    /\ UNCHANGED << file_path, encoding, fileHeader, fileRows, decodable, fileMissing,
                    documentAvailable, pc, encodings, fieldnames, rows, used_enc,
                    dept_key, name_key, id_key, title_key, groups, ordered_depts,
                    sections, result, loaderCalls, ran >>

\* lines 50-52, 66-68: the next encoding raises, the loop goes on
ReadFails ==
    /\ pc = "read"
    /\ enc_i <= Len(encodings)
    /\ ReadError(NextEncoding).type # "none"
    /\ attempted' = Append(attempted, NextEncoding)
    /\ last_err' = ReadError(NextEncoding)
    /\ enc_i' = enc_i + 1
    /\ UNCHANGED << file_path, encoding, fileHeader, fileRows, decodable, fileMissing,
                    documentAvailable, pc, encodings, fieldnames, rows, used_enc,
                    dept_key, name_key, id_key, title_key, groups, ordered_depts,
                    sections, result, loaderCalls, ran >>

\* lines 69, 92-94: every encoding raised; load() catches last_err and
\* returns what CSVLoader returns
ReadExhausted ==
    /\ pc = "read"
    /\ enc_i > Len(encodings)
    /\ loaderCalls' = Append(loaderCalls,
                             [file_path |-> file_path, encoding |-> FallbackEncoding])
    /\ result' = CSVLoaderLoad(file_path, FallbackEncoding)
    /\ pc' = "done"
    /\ UNCHANGED << file_path, encoding, fileHeader, fileRows, decodable, fileMissing,
                    documentAvailable, encodings, enc_i, attempted, last_err,
                    fieldnames, rows, used_enc, dept_key, name_key, id_key,
                    title_key, groups, ordered_depts, sections, ran >>

\* lines 96-98: no Document type
NoDocument ==
    /\ pc = "document"
    /\ ~documentAvailable
    /\ loaderCalls' = Append(loaderCalls,
                             [file_path |-> file_path, encoding |-> NoDocumentEncoding])
    /\ result' = CSVLoaderLoad(file_path, NoDocumentEncoding)
    /\ pc' = "done"
    /\ UNCHANGED << file_path, encoding, fileHeader, fileRows, decodable, fileMissing,
                    documentAvailable, encodings, enc_i, attempted, last_err,
                    fieldnames, rows, used_enc, dept_key, name_key, id_key,
                    title_key, groups, ordered_depts, sections, ran >>

\* lines 96-106: the column resolution
ResolveColumns ==
    /\ pc = "document"
    /\ documentAvailable
    /\ dept_key' = _pick_column(fieldnames, DeptCandidates)
    /\ name_key' = _pick_column(fieldnames, NameCandidates)
    /\ id_key' = _pick_column(fieldnames, IdCandidates)
    /\ title_key' = _pick_column(fieldnames, TitleCandidates)
    /\ ran' = ran \cup {"resolver"}
    /\ pc' = "group"
    /\ UNCHANGED << file_path, encoding, fileHeader, fileRows, decodable, fileMissing,
                    documentAvailable, encodings, enc_i, attempted, last_err,
                    fieldnames, rows, used_enc, groups, ordered_depts, sections,
                    result, loaderCalls >>

\* lines 130-145: the groups and their order
GroupRows ==
    /\ pc = "group"
    /\ groups' = BuildGroups
    /\ ordered_depts' = SortedByKey(DOMAIN BuildGroups)
    /\ ran' = ran \cup {"merger"}
    /\ pc' = "render"
    /\ UNCHANGED << file_path, encoding, fileHeader, fileRows, decodable, fileMissing,
                    documentAvailable, encodings, enc_i, attempted, last_err,
                    fieldnames, rows, used_enc, dept_key, name_key, id_key,
                    title_key, sections, result, loaderCalls >>

\* lines 147-181: the body and the Document
Render ==
    /\ pc = "render"
    /\ LET secs == [i \in 1..Len(ordered_depts) |->
                       [dept |-> ordered_depts[i],
                        bullets |-> BulletLines(ordered_depts[i], groups[ordered_depts[i]])]]
       IN  /\ sections' = secs
           /\ result' = <<MergedDocument(secs)>>
    /\ ran' = ran \cup {"formatter"}
    /\ pc' = "done"
    /\ UNCHANGED << file_path, encoding, fileHeader, fileRows, decodable, fileMissing,
                    documentAvailable, encodings, enc_i, attempted, last_err,
                    fieldnames, rows, used_enc, dept_key, name_key, id_key,
                    title_key, groups, ordered_depts, loaderCalls >>

Next ==
    \/ DispatchOther
    \/ DispatchRoster
    \/ ReadSucceeds
    \/ ReadFails
    \/ ReadExhausted
    \/ NoDocument
    \/ ResolveColumns
    \/ GroupRows
    \/ Render

\* the dispatch and the reader over every path, encoding and outcome of reading
Spec == Init /\ [][Next]_vars

\* the same program over every table as well
SpecRoster == InitRoster /\ [][Next]_vars

(***************************************************************************)
(* The dispatch and the reader (C1 - C4), under Spec                       *)
(***************************************************************************)

\* the candidate list of line 89, from the caller's encoding
CandidateList == <<encoding, "utf-8-sig", "cp932", "shift_jis", "utf-16">>

\* the call of CSVLoader with the caller's path and encoding, and nothing else
GenericOnly ==
    /\ loaderCalls = <<[file_path |-> file_path, encoding |-> encoding]>>
    /\ result = CSVLoaderLoad(file_path, encoding)

\* C1, as claimed: a file whose base name is not exactly "社員名簿.csv",
\* letter case included, never runs the reader, the resolver, the formatter
\* or the merger, and load returns what CSVLoader returns for the caller's
\* path and encoding.
C1_Original ==
    Basename(file_path) # SentinelName =>
        /\ ran = {}
        /\ attempted = <<>>
        /\ pc = "done" => GenericOnly

\* C1, amended: the base name is compared in lower case.  A file whose
\* lower-cased base name is not "社員名簿.csv" never runs the reader, the
\* resolver, the formatter or the merger and load returns what CSVLoader
\* returns for the caller's path and encoding; a file whose lower-cased base
\* name is "社員名簿.csv" (so "社員名簿.CSV" too) takes the roster path.
C1_Amended ==
    /\ Lower(Basename(file_path)) # SentinelName =>
          /\ ran = {}
          /\ attempted = <<>>
          /\ pc \in {"load", "done"}
          /\ pc = "done" => GenericOnly
    /\ (Lower(Basename(file_path)) = SentinelName /\ pc # "load") => "reader" \in ran

\* C1's case: a file with another base name has been loaded by CSVLoader
C1_Witness ==
    /\ pc = "done"
    /\ Lower(Basename(file_path)) # SentinelName
    /\ result.kind = "documents"
    /\ GenericOnly

\* every encoding of the candidate list was tried and raised
AllAttemptsRaised ==
    /\ attempted = CandidateList
    /\ \A i \in 1..Len(attempted) : ReadError(attempted[i]).type # "none"
    /\ used_enc = "none"

\* C2, as claimed: on the roster path CSVLoader is called only when every
\* candidate encoding failed with a decoding error or the Document type is
\* unavailable; an error of opening the file is not one of the two.
C2_Original ==
    (Lower(Basename(file_path)) = SentinelName /\ loaderCalls # <<>>) =>
        \/ /\ AllAttemptsRaised
           /\ \A i \in 1..Len(attempted) :
                 ReadError(attempted[i]).type = "UnicodeDecodeError"
        \/ /\ used_enc # "none"
           /\ ~documentAvailable

\* C2, amended: on the roster path CSVLoader is called only when every
\* candidate encoding raised, with a decoding error or with an error of
\* opening the file, or when the Document type is unavailable.  A field that
\* resolves to no column never calls it.  When the file cannot be opened
\* CSVLoader is called too, and what reaches the caller is its error.
C2_Amended ==
    /\ (Lower(Basename(file_path)) = SentinelName /\ loaderCalls # <<>>) =>
          \/ AllAttemptsRaised
          \/ /\ used_enc # "none"
             /\ ~documentAvailable
    /\ "resolver" \in ran => loaderCalls = <<>>
    /\ (Lower(Basename(file_path)) = SentinelName /\ fileMissing /\ pc = "done") =>
          /\ Len(loaderCalls) = 1
          /\ result.kind = "raise"
          /\ result.cause.type = "OSError"

\* C2's case: the roster cannot be opened and CSVLoader has been called
C2_Witness ==
    /\ pc = "done"
    /\ Lower(Basename(file_path)) = SentinelName
    /\ fileMissing
    /\ loaderCalls # <<>>

\* C3: a roster that reads under no encoding of the candidate list: load's
\* outcome is the outcome of CSVLoader with the caller's path and encoding,
\* and no merged document is built.
C3_Theorem ==
    ( /\ pc = "done"
      /\ Lower(Basename(file_path)) = SentinelName
      /\ \A i \in 1..Len(CandidateList) : ReadError(CandidateList[i]).type # "none" ) =>
        /\ result = CSVLoaderLoad(file_path, encoding)
        /\ loaderCalls = <<[file_path |-> file_path, encoding |-> encoding]>>
        /\ ran = {"reader"}
        /\ sections = <<>>

\* C3's case: every encoding failed to decode the roster and load is done
C3_Witness ==
    /\ pc = "done"
    /\ Lower(Basename(file_path)) = SentinelName
    /\ ~fileMissing
    /\ encoding = "cp932"
    /\ attempted = CandidateList
    /\ \A i \in 1..Len(CandidateList) : CandidateList[i] \notin decodable
    /\ result.kind = "raise"

\* the first position of the candidate list whose encoding reads the file, 0 if none
FirstReadable ==
    LET ok == {i \in 1..Len(CandidateList) : ReadError(CandidateList[i]).type = "none"}
    IN  IF ok = {} THEN 0 ELSE CHOOSE i \in ok : \A j \in ok : i <= j

\* C4: the encodings are tried in the order of the list and none is tried
\* after one that read the file; the encoding returned, and recorded in the
\* document's metadata, is the first of the list that reads the file.
C4_Theorem ==
    /\ Len(attempted) <= Len(CandidateList)
    /\ \A i \in 1..Len(attempted) : attempted[i] = CandidateList[i]
    /\ \A i \in 1..(Len(attempted) - 1) : ReadError(attempted[i]).type # "none"
    /\ used_enc # "none" =>
          /\ FirstReadable > 0
          /\ used_enc = CandidateList[FirstReadable]
          /\ Len(attempted) = FirstReadable
    /\ (pc = "done" /\ "formatter" \in ran) =>
          /\ FirstReadable > 0
          /\ result[1].metadata.encoding = CandidateList[FirstReadable]

\* C4's case: the caller's encoding failed, a later one read the file and
\* an encoding after it, that would read the file too, was never tried
C4_Witness ==
    /\ pc = "done"
    /\ "formatter" \in ran
    /\ Len(attempted) > 1
    /\ \E e \in decodable :
          /\ \E i \in 1..Len(CandidateList) : CandidateList[i] = e
          /\ \A i \in 1..Len(attempted) : attempted[i] # e

(***************************************************************************)
(* The resolver, the formatter and the merger (C5 - C10), under SpecRoster *)
(***************************************************************************)

\* the columns are resolved
Resolved == pc \in {"group", "render", "done"} /\ "resolver" \in ran

\* the rows are grouped
Grouped == pc \in {"render", "done"} /\ "merger" \in ran

\* the merged document is built
Merged == pc = "done" /\ "formatter" \in ran

\* the department column resolved (line 132)
DeptResolved == dept_key # None /\ dept_key # <<>>

\* the group the claims put a row in
GroupLabel(r) ==
    IF DeptResolved
    THEN IF r[dept_key] = <<>> THEN Unassigned ELSE r[dept_key]
    ELSE AllEmployees

RECURSIVE SumOfSizes(_, _)
\* the sum of the sizes of the groups g of the labels ds
SumOfSizes(g, ds) ==
    IF ds = {} THEN 0
    ELSE LET d == CHOOSE x \in ds : TRUE
         IN  Len(g[d]) + SumOfSizes(g, ds \ {d})

\* the number of times the row r occurs in the list rs
Occurrences(r, rs) == Cardinality({i \in 1..Len(rs) : rs[i] = r})

\* the number of bullet lines of the sections
RECURSIVE BulletCount(_)
BulletCount(secs) ==
    IF secs = <<>> THEN 0 ELSE Len(secs[1].bullets) + BulletCount(Tail(secs))

\* C5: the groups are a partition of the rows read: every row is in the
\* group of its department value ("未設定" for an empty one, "全社員" when no
\* department column resolved) and in no other, the sizes of the groups
\* sum to the number of rows, and that number is the metadata's row_count,
\* whatever the number of bullet lines.
C5_Theorem ==
    /\ Grouped =>
          /\ \A d \in DOMAIN groups : \A j \in 1..Len(groups[d]) :
                GroupLabel(groups[d][j]) = d
          /\ \A i \in 1..Len(rows) :
                /\ GroupLabel(rows[i]) \in DOMAIN groups
                /\ Occurrences(rows[i], groups[GroupLabel(rows[i])])
                      = Occurrences(rows[i], rows)
          /\ SumOfSizes(groups, DOMAIN groups) = Len(rows)
          /\ Len(rows) = Len(fileRows)
    /\ Merged =>
          /\ result[1].metadata.row_count = Len(fileRows)
          /\ BulletCount(sections) <= Len(fileRows)

\* C5's case: two rows of one department, one of them with no department
\* value, grouped and rendered
C5_Witness ==
    /\ Merged
    /\ DeptResolved
    /\ Len(rows) = 2
    /\ DOMAIN groups = {Unassigned, <<20154, 20107, 37096>>}
    /\ result[1].metadata.row_count = 2

\* the fields with their candidates and the column each resolved to
Fields ==
    << [candidates |-> DeptCandidates, key |-> dept_key],
       [candidates |-> NameCandidates, key |-> name_key],
       [candidates |-> IdCandidates, key |-> id_key],
       [candidates |-> TitleCandidates, key |-> title_key] >>

\* the header h equals the candidate c after normalization
ExactMatch(c, h) == _normalize_key(c) = _normalize_key(h)

\* the header h contains or is contained in the candidate c after normalization
SubMatch(c, h) ==
    \/ Contains(_normalize_key(h), _normalize_key(c))
    \/ Contains(_normalize_key(c), _normalize_key(h))

\* the least element of a non-empty set of numbers
Min(S) == CHOOSE i \in S : \A j \in S : i <= j

\* C6, as claimed: whenever some candidate of a field equals some header,
\* the column returned for the field equals a candidate; it is never a
\* column that only contains or is contained in a candidate.
C6_Original ==
    Resolved =>
        \A f \in 1..4 :
            LET cs == Fields[f].candidates
            IN  (\E ci \in 1..Len(cs) : \E hi \in 1..Len(fieldnames) :
                    ExactMatch(cs[ci], fieldnames[hi]))
                => \E ci \in 1..Len(cs) : ExactMatch(cs[ci], Fields[f].key)

\* C6, amended: the exact match comes before the containment match for one
\* candidate at a time.  The column returned is decided by the
\* highest-priority candidate that equals, contains or is contained in any
\* header: the first header, in header order, equal to it if there is one,
\* and otherwise the first header that contains it or is contained in it;
\* no such candidate, no column.
C6_Amended ==
    Resolved =>
        \A f \in 1..4 :
            LET cs == Fields[f].candidates
                any == {ci \in 1..Len(cs) :
                           \E hi \in 1..Len(fieldnames) : SubMatch(cs[ci], fieldnames[hi])}
                ex == {hi \in 1..Len(fieldnames) : ExactMatch(cs[Min(any)], fieldnames[hi])}
                sub == {hi \in 1..Len(fieldnames) : SubMatch(cs[Min(any)], fieldnames[hi])}
            IN  IF any = {} THEN Fields[f].key = None
                ELSE IF ex # {} THEN Fields[f].key = fieldnames[Min(ex)]
                ELSE Fields[f].key = fieldnames[Min(sub)]

\* C6's case: the identifier resolved to "社員", contained in the first
\* candidate, although "社員番号" equals the second
C6_Witness ==
    /\ Resolved
    /\ fieldnames = << <<31038, 21729>>, <<31038, 21729, 30058, 21495>> >>
    /\ id_key = <<31038, 21729>>

\* C7, as claimed: fmt_row returns one line for every row read
C7_Claim ==
    Resolved =>
        \A i \in 1..Len(rows) :
            /\ ~Contains(fmt_row(rows[i]), NL)
            /\ ~Contains(fmt_row(rows[i]), <<13>>)

\* the label a is before the label b in the order of the groups
LabelBefore(a, b) ==
    \/ Contains(a, HRMarker) /\ ~Contains(b, HRMarker)
    \/ /\ Contains(a, HRMarker) = Contains(b, HRMarker)
       /\ StrLess(a, b)

\* C8: the groups are rendered with every label that contains "人事" before
\* every label that does not, and in ascending order within the two
\* classes; the bullet lines of a group are those of its rows in the order
\* of the rows in the input.
C8_Theorem ==
    Merged =>
        /\ {sections[i].dept : i \in 1..Len(sections)}
              = IF DeptResolved THEN {GroupLabel(rows[i]) : i \in 1..Len(rows)}
                ELSE {AllEmployees}
        /\ \A i, j \in 1..Len(sections) :
              i < j => LabelBefore(sections[i].dept, sections[j].dept)
        /\ \A i \in 1..Len(sections) :
              sections[i].bullets =
                  BulletLines(sections[i].dept,
                              SelectSeq2(rows, {k \in 1..Len(rows) :
                                           GroupLabel(rows[k]) = sections[i].dept}))

\* C8's case: the group "人事部" is rendered before the group "IT", which is
\* before it in the order of the strings
C8_Witness ==
    /\ Merged
    /\ Len(sections) = 2
    /\ sections[1].dept = <<20154, 20107, 37096>>
    /\ sections[2].dept = <<73, 84>>
    /\ StrLess(sections[2].dept, sections[1].dept)
    /\ Len(sections[1].bullets) = 1
    /\ Len(sections[2].bullets) = 1

\* C9, as claimed: the department column resolved, every bullet line of a
\* group carries the segment "部署: <the group's label>"
C9_Claim ==
    (Merged /\ DeptResolved) =>
        \A i \in 1..Len(sections) : \A j \in 1..Len(sections[i].bullets) :
            Contains(sections[i].bullets[j], <<37096, 32626, 58, 32>> \o sections[i].dept)

\* the columns of the resolved fields
ResolvedColumns == {name_key, dept_key, title_key, id_key} \ {None}

\* C10, as claimed: the fields that resolved to a named column did so to
\* pairwise distinct columns, and no column is rendered in two segments of
\* the line of a row.
C10_Original ==
    Resolved =>
        /\ \A f, g \in 1..4 :
              (f # g /\ Truthy(Fields[f].key) /\ Truthy(Fields[g].key))
                  => Fields[f].key # Fields[g].key
        /\ \A i \in 1..Len(rows) :
              LET parts == SemanticParts(rows[i])
              IN  \A a, b \in 1..Len(parts) : a # b => parts[a].column # parts[b].column

\* the positions of the header a row has an extra segment for, were there no cap
ExtraPositions(r) ==
    {i \in 1..Len(fieldnames) :
        /\ fieldnames[i] \notin (ResolvedColumns \ {<<>>})
        /\ r[fieldnames[i]] # <<>>}

\* C10, amended: two fields can resolve to one column, which is then
\* rendered once for each of them.  Every line has at most four segments of
\* resolved fields, each of a resolved column with a value, followed by at
\* most three extra segments: those of the first three header entries, in
\* header order, that have a value and are not the column of a resolved
\* field, a column with an empty name not counting as resolved.  No column
\* is rendered both for a field and as an extra.
C10_Amended ==
    Resolved =>
        \A i \in 1..Len(rows) :
            LET r == rows[i]
                sem == SemanticParts(r)
                ext == ExtraParts(r)
                pos == ExtraPositions(r)
                n == IF Cardinality(pos) < 3 THEN Cardinality(pos) ELSE 3
            IN  /\ Len(sem) <= 4
                /\ \A a \in 1..Len(sem) :
                      /\ sem[a].column \in ResolvedColumns \ {<<>>}
                      /\ r[sem[a].column] # <<>>
                /\ Len(ext) = n
                /\ \A a \in 1..Len(ext) :
                      /\ ext[a].column \notin ResolvedColumns \ {<<>>}
                      /\ \E p \in pos :
                            /\ fieldnames[p] = ext[a].column
                            /\ Cardinality({q \in pos : q < p}) = a - 1
                /\ \A a \in 1..Len(sem) : \A b \in 1..Len(ext) :
                      sem[a].column # ext[b].column

\* C10's case: the department and the name resolved to the column
\* "Team Name", rendered twice in the line of a row, before an extra segment
C10_Witness ==
    /\ Resolved
    /\ dept_key = <<84, 101, 97, 109, 32, 78, 97, 109, 101>>
    /\ name_key = <<84, 101, 97, 109, 32, 78, 97, 109, 101>>
    /\ \E i \in 1..Len(rows) :
          /\ Len(SemanticParts(rows[i])) = 2
          /\ Len(ExtraParts(rows[i])) = 1

=============================================================================
